---- MODULE Spec2Model ----
(***************************************************************************)
(* xenium::ramalhete_queue (src/xenium/ramalhete_queue.hpp): the           *)
(* FAAArrayQueue of Ramalhete and Correia, a lock-free multi-producer /    *)
(* multi-consumer queue of pointers built from a chain of fixed-size       *)
(* nodes.  Every atomic access of push and try_pop is one step of the      *)
(* calling thread; the labels of pc are the source lines of the access     *)
(* the thread performs next.                                               *)
(***************************************************************************)
EXTENDS Integers, Sequences, FiniteSets, TLC

\* ------------------------------------------------------------------ bounds
\* Threads that call push and try_pop.
Threads == {1, 2}
\* Calls of push with a non-null value, over all threads; the k-th such call
\* pushes the value k, so that pushed values are pairwise distinct.
MaxPush == 2
\* Calls of try_pop, over all threads.
MaxPop == 3
\* Nodes the allocator can hand out before operator new throws bad_alloc.
MaxNodes == 3
\* Calls of push and of try_pop when one thread pushes and another one pops.
SpscPush == 4
SpscPop == 4
\* Calls of push and of try_pop when the chain is to reach three nodes.
ChainPush == 5
ChainPop == 2

\* ------------------------------------------------- configuration (policies)
entries_per_node == 2
pop_retries == 1

\* ------------------------------------------------------------------ values
\* nullptr, as a value and as a node pointer.
Null == 0
\* marked_value(nullptr, 1): the null pointer with the mark bit set.
Tombstone == -1
NodeIds == 1..MaxNodes
Slots == 0..(entries_per_node - 1)

\* What a thread can have observed: the writes the caller of push(v) made
\* before the call, and the writes of the constructor of node n.
Data(v) == <<"data", v>>
Made(n) == <<"node", n>>

VARIABLES
  head, tail,   \* the queue's two concurrent_ptr
  node,         \* the heap: node id -> [pop_idx, entries, push_idx, next]
  mem,          \* node id -> life cycle of the allocation
  pc,           \* thread -> source line of its next atomic access, or "idle"
  value,        \* push: the argument
  t,            \* push: guard_ptr t
  h,            \* try_pop: guard_ptr h
  idx,          \* const int idx of either operation
  next,         \* local next of either operation
  new_node,     \* push: new_node
  cnt,          \* try_pop: cnt of the spin loop
  ld,           \* try_pop: the operand of line 243 loaded first
  view,         \* thread -> the writes that happen before its next step
  rel,          \* atomic object -> the writes its release sequences publish
  conf,         \* the harness: who calls what and how often, and which of the
                \* histories owed, view and rel are kept
  crashed,      \* the threads that take no further step, each with the line
                \* it stopped at
  pushes, pops, \* calls invoked so far
  prior,        \* the pairs <<a, b>> of values such that push(a) had returned
                \* when push(b) was invoked
  ret,          \* the call that returned in the last step, if one did
  pushed,       \* values whose push returned
  popped,       \* values returned by try_pop, in the order of return
  owed,         \* try_pop: the values whose push had returned when it was invoked
                \* and that no try_pop has returned since
  solo,         \* the thread whose running call was invoked with no call running, none invoked since
  snap          \* the shared state at the invocation of the solo call

shared == <<head, tail, node, mem>>
locals == <<value, t, h, idx, next, new_node, cnt, ld>>
order == <<view, rel>>
history == <<conf, crashed, pushes, prior, pops, pushed, popped, owed, solo, snap>>
vars == <<head, tail, node, mem, pc, value, t, h, idx, next, new_node, cnt, ld,
          view, rel, conf, crashed, pushes, prior, pops, ret, pushed, popped, owed,
          solo, snap>>

\* ------------------------------------------------------------------- node
\* A faulty constructor: the first entry pre-filled, but push_idx 0.
NewNodeCursor0(item) ==
  [pop_idx |-> 0,
   entries |-> [i \in Slots |-> IF i = 0 THEN item ELSE Null],
   push_idx |-> 0,
   next |-> Null]

\* node::node(T* item): the first entry pre-filled, push_idx 1.
NewNode(item) ==
  [pop_idx |-> 0,
   entries |-> [i \in Slots |-> IF i = 0 THEN item ELSE Null],
   push_idx |-> 1,
   next |-> Null]

\* The sentinel of the constructor: node(nullptr) with push_idx stored 0.
Sentinel == [NewNode(Null) EXCEPT !.push_idx = 0]

\* The content of memory that holds no node (never allocated, or freed).
NoNodeContent == [NewNode(Null) EXCEPT !.push_idx = 0]

\* idx > entries_per_node - 1
NodeFull(i) == i > entries_per_node - 1

\* The cursors stay below this; the fetch_adds are guarded by it.
IdxCap == entries_per_node + 2 * (MaxPush + MaxPop) + 2

\* The record the solo call's snapshot keeps.
Shared == [head |-> head, tail |-> tail, node |-> node, mem |-> mem]
NoSnap == [head |-> Null]

\* No call returned in the last step.
NoRet == [thread |-> Null]

\* ------------------------------------------------------------ memory order
\* A faulty order of a CAS that publishes: std::memory_order_relaxed.
Relaxed == "relaxed"

\* The std::memory_order of the accesses the source numbers (3) to (12).
Order3 == "acquire"
Order4 == "release"
Order5 == "release"
Order6 == "acquire"
Order7 == "release"
Order8 == "release"
Order9 == "acquire"
Order10 == "acquire"
Order11 == "release"
Order12 == "acquire"

\* What p has observed after a load (or read-modify-write) with order o of an
\* object whose release sequences publish r.
Acquire(p, o, r) == IF o \in {"acquire", "acq_rel"} THEN view[p] \cup r ELSE view[p]

\* The writes in S, where the harness keeps view and rel.
Observed(S) == IF conf.views THEN S ELSE {}

\* What an object publishes after p's read-modify-write with order o: the
\* write continues the release sequences it reads from.
Release(p, o, r) == IF o \in {"release", "acq_rel"} THEN r \cup view[p] ELSE r

NoRel == [head |-> {}, tail |-> {},
          next |-> [n \in NodeIds |-> {}],
          entries |-> [n \in NodeIds |-> [i \in Slots |-> {}]]]

\* ------------------------------------------------------------------- init
\* The queue after its constructor (lines 155-161), no call running.
InitQueue ==
  /\ head = 1
  /\ tail = 1
  /\ node = [n \in NodeIds |-> IF n = 1 THEN Sentinel ELSE NoNodeContent]
  /\ mem = [n \in NodeIds |-> IF n = 1 THEN "linked" ELSE "unused"]
  /\ pc = [p \in Threads |-> "idle"]
  /\ value = [p \in Threads |-> Null]
  /\ t = [p \in Threads |-> Null]
  /\ h = [p \in Threads |-> Null]
  /\ idx = [p \in Threads |-> 0]
  /\ next = [p \in Threads |-> Null]
  /\ new_node = [p \in Threads |-> Null]
  /\ cnt = [p \in Threads |-> 0]
  /\ ld = [p \in Threads |-> 0]
  /\ view = [p \in Threads |-> {}]
  /\ rel = NoRel
  /\ crashed = {}
  /\ pushes = 0
  /\ prior = {}
  /\ pops = 0
  /\ ret = NoRet
  /\ pushed = {}
  /\ popped = <<>>
  /\ owed = [p \in Threads |-> {}]
  /\ solo = Null
  /\ snap = NoSnap

\* Every thread calls push and try_pop, push with non-null values only.
Harness ==
  [producers |-> Threads, consumers |-> Threads, push |-> MaxPush, pop |-> MaxPop,
   null |-> FALSE, owed |-> FALSE, views |-> FALSE, fifo |-> FALSE]

Init ==
  /\ InitQueue
  /\ conf = Harness

\* ------------------------------------------------------- call and return
Quiescent == \A q \in Threads : pc[q] = "idle"

\* A call is invoked by p: the bookkeeping of the histories.
Invoked(p) ==
  /\ solo' = IF Quiescent THEN p ELSE Null
  /\ snap' = IF Quiescent THEN Shared ELSE NoSnap

\* The call of p ends with outcome r and, for try_pop, with v in result: the
\* locals and the guards go out of scope.  ret records the return for the
\* state it leads to; observed is what p has observed when it returns.
Return(p, r, v, observed) ==
  /\ pc' = [pc EXCEPT ![p] = "idle"]
  /\ ret' = [thread |-> p, outcome |-> r, result |-> v, owed |-> owed[p],
             view |-> observed, alone |-> (solo = p), snap |-> snap]
  /\ view' = [view EXCEPT ![p] = {}]
  /\ value' = [value EXCEPT ![p] = Null]
  /\ t' = [t EXCEPT ![p] = Null]
  /\ h' = [h EXCEPT ![p] = Null]
  /\ idx' = [idx EXCEPT ![p] = 0]
  /\ next' = [next EXCEPT ![p] = Null]
  /\ new_node' = [new_node EXCEPT ![p] = Null]
  /\ cnt' = [cnt EXCEPT ![p] = 0]
  /\ ld' = [ld EXCEPT ![p] = 0]
  /\ solo' = IF solo = p THEN Null ELSE solo
  /\ snap' = IF solo = p THEN NoSnap ELSE snap

\* The values the try_pops in progress are still owed after p returns, v popped.
Settled(p, v) == owed' = [q \in Threads |-> IF q = p THEN {} ELSE owed[q] \ {v}]

\* The step is not a return, and p goes on at l.
Goto(p, l) ==
  /\ pc' = [pc EXCEPT ![p] = l]
  /\ ret' = NoRet

\* ------------------------------------------------------------------- push
\* A faulty push: no null check, nullptr is pushed like any value.
PushCallUnchecked(p) ==
  /\ pc[p] = "idle"
  /\ p \in conf.producers
  /\ pushes < conf.push
  /\ \E v \in (IF conf.null THEN {Null} ELSE {}) \cup {pushes + 1} :
       /\ pushes' = pushes + 1
       /\ prior' = IF conf.fifo THEN prior \cup {<<a, v>> : a \in pushed} ELSE prior
       /\ value' = [value EXCEPT ![p] = v]
       /\ view' = [view EXCEPT ![p] = Observed({Made(1), Data(v)})]
  /\ Goto(p, "p188")
  /\ Invoked(p)
  /\ UNCHANGED <<shared, t, h, idx, next, new_node, cnt, ld, rel, conf, crashed, pops,
                 pushed, popped, owed>>

\* Lines 178-181: the call and its null check, which throws invalid_argument
\* before anything else is done.  A non-null argument is the next unused value.
PushCall(p) ==
  /\ pc[p] = "idle"
  /\ p \in conf.producers
  /\ \E v \in (IF conf.null THEN {Null} ELSE {}) \cup {pushes + 1} :
       IF v = Null
       THEN /\ ret' = [thread |-> p, outcome |-> "invalid_argument", result |-> Null,
                       owed |-> {}, view |-> {}, alone |-> Quiescent,
                       snap |-> IF Quiescent THEN Shared ELSE NoSnap]
            /\ solo' = Null
            /\ snap' = NoSnap
            /\ UNCHANGED <<pc, value, view, pushes, prior>>
       ELSE /\ pushes < conf.push
            /\ pushes' = v
            /\ prior' = IF conf.fifo THEN prior \cup {<<a, v>> : a \in pushed} ELSE prior
            /\ value' = [value EXCEPT ![p] = v]
            /\ view' = [view EXCEPT ![p] = Observed({Made(1), Data(v)})]
            /\ Goto(p, "p188")
            /\ Invoked(p)
  /\ UNCHANGED <<shared, t, h, idx, next, new_node, cnt, ld, rel, conf, crashed, pops,
                 pushed, popped, owed>>

\* Line 188: t.acquire(tail, acquire).
PushAcquireTail(p) ==
  /\ pc[p] = "p188"
  /\ t' = [t EXCEPT ![p] = tail]
  /\ view' = [view EXCEPT ![p] = Acquire(p, Order3, rel.tail)]
  /\ Goto(p, "p190")
  /\ UNCHANGED <<shared, value, h, idx, next, new_node, cnt, ld, rel, history>>

\* Lines 190-191: idx = t->push_idx.fetch_add(1), and the test for a full node.
PushFetchAdd(p) ==
  /\ pc[p] = "p190"
  /\ node[t[p]].push_idx < IdxCap
  /\ idx' = [idx EXCEPT ![p] = node[t[p]].push_idx]
  /\ node' = [node EXCEPT ![t[p]].push_idx = @ + 1]
  /\ Goto(p, IF NodeFull(node[t[p]].push_idx) THEN "p194" ELSE "p226")
  /\ UNCHANGED <<head, tail, mem, value, t, h, next, new_node, cnt, ld,
                 order, history>>

\* Lines 194-195: if (t != tail.load(relaxed)) continue.
PushCheckTail(p) ==
  /\ pc[p] = "p194"
  /\ Goto(p, IF t[p] # tail THEN "p188" ELSE "p197")
  /\ UNCHANGED <<shared, locals, order, history>>

\* Lines 197-198: next = t->next.load(relaxed), and the test for nullptr.
PushLoadNext(p) ==
  /\ pc[p] = "p197"
  /\ next' = [next EXCEPT ![p] = node[t[p]].next]
  /\ Goto(p, IF node[t[p]].next = Null THEN "p200" ELSE "p216")
  /\ UNCHANGED <<shared, value, t, h, idx, new_node, cnt, ld, order, history>>

\* A faulty push: bad_alloc is thrown after memory was taken, which nobody frees.
PushNewNodeLeak(p) ==
  /\ pc[p] = "p200"
  /\ \E n \in NodeIds :
       /\ mem[n] = "unused"
       /\ \A m \in NodeIds : mem[m] = "unused" => n <= m
       /\ mem' = [mem EXCEPT ![n] = "private"]
       /\ node' = [node EXCEPT ![n] = NewNode(value[p])]
  /\ Return(p, "bad_alloc", Null, view[p])
  /\ UNCHANGED <<head, tail, rel, conf, crashed, pushes, prior, pops, pushed, popped, owed>>

\* Line 200: new node(value).  operator new hands out unused memory, or throws
\* bad_alloc, which leaves push through the destructor of the guard.
PushNewNode(p) ==
  /\ pc[p] = "p200"
  /\ \/ \E n \in NodeIds :
          /\ mem[n] = "unused"
          /\ \A m \in NodeIds : mem[m] = "unused" => n <= m
          /\ mem' = [mem EXCEPT ![n] = "private"]
          /\ node' = [node EXCEPT ![n] = NewNode(value[p])]
          /\ new_node' = [new_node EXCEPT ![p] = n]
          /\ view' = [view EXCEPT ![p] = Observed(@ \cup {Made(n)})]
          /\ Goto(p, "p203")
          /\ UNCHANGED <<head, tail, value, t, h, idx, next, cnt, ld, rel,
                         history>>
     \/ /\ Return(p, "bad_alloc", Null, view[p])
        /\ UNCHANGED <<shared, rel, conf, crashed, pushes, prior, pops, pushed, popped, owed>>

\* A faulty push: the node is linked with a store, whatever next holds.
PushLinkNodeStore(p) ==
  /\ pc[p] = "p203"
  /\ node' = [node EXCEPT ![t[p]].next = new_node[p]]
  /\ mem' = [mem EXCEPT ![new_node[p]] = "linked"]
  /\ rel' = [rel EXCEPT !.next[t[p]] = Release(p, Order4, @)]
  /\ Goto(p, "p209")
  /\ UNCHANGED <<head, tail, locals, view, history>>

\* Lines 201-205: t->next.compare_exchange_strong(nullptr, new_node).
PushLinkNode(p) ==
  /\ pc[p] = "p203"
  /\ IF node[t[p]].next = Null
     THEN /\ node' = [node EXCEPT ![t[p]].next = new_node[p]]
          /\ mem' = [mem EXCEPT ![new_node[p]] = "linked"]
          /\ rel' = [rel EXCEPT !.next[t[p]] = Release(p, Order4, @)]
          /\ Goto(p, "p209")
     ELSE /\ Goto(p, "p213")
          /\ UNCHANGED <<node, mem, rel>>
  /\ UNCHANGED <<head, tail, locals, view, history>>

\* A faulty push: tail is written with a store instead of the CAS.
PushSwingTailStore(p) ==
  /\ pc[p] = "p209"
  /\ tail' = new_node[p]
  /\ rel' = [rel EXCEPT !.tail = Release(p, Order5, @)]
  /\ pushed' = pushed \cup {value[p]}
  /\ Return(p, "pushed", Null, view[p])
  /\ UNCHANGED <<head, node, mem, conf, crashed, pushes, prior, pops, popped, owed>>

\* Lines 207-210: tail.compare_exchange_strong(t, new_node); return.
PushSwingTail(p) ==
  /\ pc[p] = "p209"
  /\ IF tail = t[p]
     THEN /\ tail' = new_node[p]
          /\ rel' = [rel EXCEPT !.tail = Release(p, Order5, @)]
     ELSE UNCHANGED <<tail, rel>>
  /\ pushed' = pushed \cup {value[p]}
  /\ Return(p, "pushed", Null, view[p])
  /\ UNCHANGED <<head, node, mem, conf, crashed, pushes, prior, pops, popped, owed>>

\* Line 213: delete new_node; line 221: continue.
PushDeleteNode(p) ==
  /\ pc[p] = "p213"
  /\ mem' = [mem EXCEPT ![new_node[p]] = "deleted"]
  /\ node' = [node EXCEPT ![new_node[p]] = NoNodeContent]
  /\ new_node' = [new_node EXCEPT ![p] = Null]
  /\ Goto(p, "p188")
  /\ UNCHANGED <<head, tail, value, t, h, idx, next, cnt, ld, order, history>>

\* Line 216: next = t->next.load(acquire).
PushReloadNext(p) ==
  /\ pc[p] = "p216"
  /\ next' = [next EXCEPT ![p] = node[t[p]].next]
  /\ view' = [view EXCEPT ![p] = Acquire(p, Order6, rel.next[t[p]])]
  /\ Goto(p, "p219")
  /\ UNCHANGED <<shared, value, t, h, idx, new_node, cnt, ld, rel, history>>

\* A faulty push: tail is left for the thread that linked the node to advance.
PushHelpTailSkip(p) ==
  /\ pc[p] = "p219"
  /\ Goto(p, "p188")
  /\ UNCHANGED <<shared, locals, order, history>>

\* Lines 217-221: tail.compare_exchange_strong(t, next); continue.
PushHelpTail(p) ==
  /\ pc[p] = "p219"
  /\ IF tail = t[p]
     THEN /\ tail' = next[p]
          /\ rel' = [rel EXCEPT !.tail = Release(p, Order7, @)]
     ELSE UNCHANGED <<tail, rel>>
  /\ Goto(p, "p188")
  /\ UNCHANGED <<head, node, mem, locals, view, history>>

\* A faulty push: the slot is written with a store that does not test for nullptr.
PushPublishStore(p) ==
  /\ pc[p] = "p226"
  /\ node' = [node EXCEPT ![t[p]].entries[idx[p]] = value[p]]
  /\ rel' = [rel EXCEPT !.entries[t[p]][idx[p]] = Release(p, Order8, @)]
  /\ pushed' = pushed \cup {value[p]}
  /\ Return(p, "pushed", Null, view[p])
  /\ UNCHANGED <<head, tail, mem, conf, crashed, pushes, prior, pops, popped, owed>>

\* A faulty push: after a failed CAS the same slot is tried again.
PushPublishRetry(p) ==
  /\ pc[p] = "p226"
  /\ IF node[t[p]].entries[idx[p]] = Null
     THEN /\ node' = [node EXCEPT ![t[p]].entries[idx[p]] = value[p]]
          /\ rel' = [rel EXCEPT !.entries[t[p]][idx[p]] = Release(p, Order8, @)]
          /\ pushed' = pushed \cup {value[p]}
          /\ Return(p, "pushed", Null, view[p])
          /\ UNCHANGED <<head, tail, mem, conf, crashed, pushes, prior, pops, popped, owed>>
     ELSE /\ Goto(p, "p226")
          /\ UNCHANGED <<shared, locals, order, history>>

\* Lines 224-229: entries[idx].value.compare_exchange_strong(nullptr, value);
\* return on success, backoff() (no_backoff) and the next round otherwise.
PushPublish(p) ==
  /\ pc[p] = "p226"
  /\ IF node[t[p]].entries[idx[p]] = Null
     THEN /\ node' = [node EXCEPT ![t[p]].entries[idx[p]] = value[p]]
          /\ rel' = [rel EXCEPT !.entries[t[p]][idx[p]] = Release(p, Order8, @)]
          /\ pushed' = pushed \cup {value[p]}
          /\ Return(p, "pushed", Null, view[p])
          /\ UNCHANGED <<head, tail, mem, conf, crashed, pushes, prior, pops, popped, owed>>
     ELSE /\ Goto(p, "p188")
          /\ UNCHANGED <<shared, locals, order, history>>

Push(p) ==
  \/ PushAcquireTail(p) \/ PushFetchAdd(p) \/ PushCheckTail(p)
  \/ PushLoadNext(p) \/ PushNewNode(p) \/ PushLinkNode(p)
  \/ PushSwingTail(p) \/ PushDeleteNode(p) \/ PushReloadNext(p)
  \/ PushHelpTail(p) \/ PushPublish(p)

\* ---------------------------------------------------------------- try_pop
\* Line 234: the call.
PopCall(p) ==
  /\ pc[p] = "idle"
  /\ p \in conf.consumers
  /\ pops < conf.pop
  /\ pops' = pops + 1
  /\ Goto(p, "c241")
  /\ view' = [view EXCEPT ![p] = Observed({Made(1)})]
  /\ owed' = [owed EXCEPT ![p] = IF conf.owed THEN pushed \ {popped[i] : i \in 1..Len(popped)} ELSE {}]
  /\ Invoked(p)
  /\ UNCHANGED <<shared, value, t, h, idx, next, new_node, cnt, ld, rel, conf,
                 crashed, pushes, prior, pushed, popped>>

\* A faulty try_pop: the guard is taken on tail.
PopAcquireTail(p) ==
  /\ pc[p] = "c241"
  /\ h' = [h EXCEPT ![p] = tail]
  /\ view' = [view EXCEPT ![p] = Acquire(p, Order9, rel.tail)]
  /\ Goto(p, "c243")
  /\ UNCHANGED <<shared, value, t, idx, next, new_node, cnt, ld, rel, history>>

\* Line 241: h.acquire(head, acquire).
PopAcquireHead(p) ==
  /\ pc[p] = "c241"
  /\ h' = [h EXCEPT ![p] = head]
  /\ view' = [view EXCEPT ![p] = Acquire(p, Order9, rel.head)]
  /\ Goto(p, "c243")
  /\ UNCHANGED <<shared, value, t, idx, next, new_node, cnt, ld, rel, history>>

\* Line 243, the first of the two loads of h->pop_idx >= h->push_idx: the
\* operands of >= are unsequenced, either is loaded first.
PopLoadFirst(p) ==
  /\ pc[p] = "c243"
  /\ \/ /\ ld' = [ld EXCEPT ![p] = node[h[p]].pop_idx]
        /\ Goto(p, "c243push")
     \/ /\ ld' = [ld EXCEPT ![p] = node[h[p]].push_idx]
        /\ Goto(p, "c243pop")
  /\ UNCHANGED <<shared, value, t, h, idx, next, new_node, cnt, order, history>>

\* A faulty try_pop: the cursors are compared with > instead of >=.
PopLoadSecondStrict(p) ==
  /\ pc[p] \in {"c243push", "c243pop"}
  /\ LET pop == IF pc[p] = "c243push" THEN ld[p] ELSE node[h[p]].pop_idx
         push == IF pc[p] = "c243push" THEN node[h[p]].push_idx ELSE ld[p]
     IN  Goto(p, IF pop > push THEN "c244" ELSE "c247")
  /\ ld' = [ld EXCEPT ![p] = 0]
  /\ UNCHANGED <<shared, value, t, h, idx, next, new_node, cnt, order, history>>

\* Line 243, the second load and the comparison; && goes on to line 244 only
\* when pop_idx >= push_idx.
PopLoadSecond(p) ==
  /\ pc[p] \in {"c243push", "c243pop"}
  /\ LET pop == IF pc[p] = "c243push" THEN ld[p] ELSE node[h[p]].pop_idx
         push == IF pc[p] = "c243push" THEN node[h[p]].push_idx ELSE ld[p]
     IN  Goto(p, IF pop >= push THEN "c244" ELSE "c247")
  /\ ld' = [ld EXCEPT ![p] = 0]
  /\ UNCHANGED <<shared, value, t, h, idx, next, new_node, cnt, order, history>>

\* A faulty try_pop: line 243 alone decides that the queue is empty.
PopCheckNextBreak(p) ==
  /\ pc[p] = "c244"
  /\ Return(p, "false", Null, view[p])
  /\ Settled(p, Null)
  /\ UNCHANGED <<shared, rel, conf, crashed, pushes, prior, pops, pushed, popped>>

\* Lines 244-245: h->next.load(relaxed) == nullptr: break, return false.
PopCheckNext(p) ==
  /\ pc[p] = "c244"
  /\ IF node[h[p]].next = Null
     THEN /\ Return(p, "false", Null, view[p])
          /\ Settled(p, Null)
          /\ UNCHANGED <<shared, rel, conf, crashed, pushes, prior, pops, pushed, popped>>
     ELSE /\ Goto(p, "c247")
          /\ UNCHANGED <<shared, locals, order, history>>

\* A faulty try_pop: pop_idx is loaded, not incremented.
PopFetchAddLoad(p) ==
  /\ pc[p] = "c247"
  /\ idx' = [idx EXCEPT ![p] = node[h[p]].pop_idx]
  /\ cnt' = [cnt EXCEPT ![p] = 0]
  /\ Goto(p, IF NodeFull(node[h[p]].pop_idx) THEN "c252"
             ELSE IF pop_retries > 0 THEN "c267" ELSE "c272")
  /\ UNCHANGED <<shared, value, t, h, next, new_node, ld, order, history>>

\* Lines 247-248: idx = h->pop_idx.fetch_add(1), and the test for a drained
\* node; line 264 skips the spin loop when pop_retries is 0.
PopFetchAdd(p) ==
  /\ pc[p] = "c247"
  /\ node[h[p]].pop_idx < IdxCap
  /\ idx' = [idx EXCEPT ![p] = node[h[p]].pop_idx]
  /\ node' = [node EXCEPT ![h[p]].pop_idx = @ + 1]
  /\ cnt' = [cnt EXCEPT ![p] = 0]
  /\ Goto(p, IF NodeFull(node[h[p]].pop_idx) THEN "c252"
             ELSE IF pop_retries > 0 THEN "c267" ELSE "c272")
  /\ UNCHANGED <<head, tail, mem, value, t, h, next, new_node, ld, order,
                 history>>

\* Lines 252-254: next = h->next.load(acquire); nullptr: break, return false.
PopLoadNext(p) ==
  /\ pc[p] = "c252"
  /\ IF node[h[p]].next = Null
     THEN /\ Return(p, "false", Null, view[p])
          /\ Settled(p, Null)
          /\ UNCHANGED <<shared, rel, conf, crashed, pushes, prior, pops, pushed, popped>>
     ELSE /\ next' = [next EXCEPT ![p] = node[h[p]].next]
          /\ view' = [view EXCEPT ![p] = Acquire(p, Order10, rel.next[h[p]])]
          /\ Goto(p, "c258")
          /\ UNCHANGED <<shared, value, t, h, idx, new_node, cnt, ld, rel,
                         history>>

\* A faulty try_pop: the drained node is reclaimed whether the CAS of head
\* succeeds or fails.
PopSwingHeadAlways(p) ==
  /\ pc[p] = "c258"
  /\ IF head = h[p]
     THEN /\ head' = next[p]
          /\ rel' = [rel EXCEPT !.head = Release(p, Order11, @)]
     ELSE UNCHANGED <<head, rel>>
  /\ Goto(p, "c259")
  /\ UNCHANGED <<tail, node, mem, locals, view, history>>

\* A faulty try_pop: the drained node is reclaimed without the CAS of head.
PopSwingHeadSkip(p) ==
  /\ pc[p] = "c258"
  /\ Goto(p, "c259")
  /\ UNCHANGED <<shared, locals, order, history>>

\* Lines 256-258: head.compare_exchange_strong(h, next); line 261: continue.
PopSwingHead(p) ==
  /\ pc[p] = "c258"
  /\ IF head = h[p]
     THEN /\ head' = next[p]
          /\ rel' = [rel EXCEPT !.head = Release(p, Order11, @)]
          /\ Goto(p, "c259")
     ELSE /\ Goto(p, "c241")
          /\ UNCHANGED <<head, rel>>
  /\ UNCHANGED <<tail, node, mem, locals, view, history>>

\* Line 259: h.reclaim(): the node is handed to the reclamation scheme and the
\* guard is reset; line 261: continue.
PopReclaim(p) ==
  /\ pc[p] = "c259"
  /\ mem' = [mem EXCEPT ![h[p]] = "retired"]
  /\ h' = [h EXCEPT ![p] = Null]
  /\ Goto(p, "c241")
  /\ UNCHANGED <<head, tail, node, value, t, idx, next, new_node, cnt, ld,
                 order, history>>

\* A faulty try_pop: the loop waits for the push of the slot, however long.
PopSpinWait(p) ==
  /\ pc[p] = "c267"
  /\ node[h[p]].entries[idx[p]] # Null
  /\ Goto(p, "c272")
  /\ UNCHANGED <<shared, locals, order, history>>

\* Lines 264-269: one round of
\* while (entries[idx].value.load(relaxed) == nullptr && ++cnt <= pop_retries).
PopSpin(p) ==
  /\ pc[p] = "c267"
  /\ IF node[h[p]].entries[idx[p]] # Null
     THEN /\ Goto(p, "c272")
          /\ UNCHANGED cnt
     ELSE /\ cnt' = [cnt EXCEPT ![p] = @ + 1]
          /\ Goto(p, IF cnt[p] + 1 <= pop_retries THEN "c267" ELSE "c272")
  /\ UNCHANGED <<shared, value, t, h, idx, next, new_node, ld, order, history>>

\* marked_ptr::get(): the pointer without its mark bit.
Get(v) == IF v = Tombstone THEN Null ELSE v

\* A faulty try_pop: a slot found empty is left as it is.
PopExchangeSkip(p) ==
  /\ pc[p] = "c272"
  /\ IF node[h[p]].entries[idx[p]] # Null
     THEN /\ node' = [node EXCEPT ![h[p]].entries[idx[p]] = Tombstone]
          /\ rel' = [rel EXCEPT !.entries[h[p]][idx[p]] = Release(p, Order12, @)]
          /\ popped' = Append(popped, Get(node[h[p]].entries[idx[p]]))
          /\ Return(p, "true", Get(node[h[p]].entries[idx[p]]),
                    Acquire(p, Order12, rel.entries[h[p]][idx[p]]))
          /\ Settled(p, Get(node[h[p]].entries[idx[p]]))
          /\ UNCHANGED <<head, tail, mem, conf, crashed, pushes, prior, pops, pushed>>
     ELSE /\ Goto(p, "c241")
          /\ cnt' = [cnt EXCEPT ![p] = 0]
          /\ UNCHANGED <<shared, value, t, h, idx, next, new_node, ld, order, history>>

\* A faulty try_pop: the slot is exchanged with nullptr, without the mark.
PopExchangeNull(p) ==
  /\ pc[p] = "c272"
  /\ node' = [node EXCEPT ![h[p]].entries[idx[p]] = Null]
  /\ rel' = [rel EXCEPT !.entries[h[p]][idx[p]] = Release(p, Order12, @)]
  /\ IF node[h[p]].entries[idx[p]] # Null
     THEN /\ popped' = Append(popped, Get(node[h[p]].entries[idx[p]]))
          /\ Return(p, "true", Get(node[h[p]].entries[idx[p]]),
                    Acquire(p, Order12, rel.entries[h[p]][idx[p]]))
          /\ Settled(p, Get(node[h[p]].entries[idx[p]]))
          /\ UNCHANGED <<head, tail, mem, conf, crashed, pushes, prior, pops, pushed>>
     ELSE /\ Goto(p, "c241")
          /\ view' = [view EXCEPT ![p] = Acquire(p, Order12, rel.entries[h[p]][idx[p]])]
          /\ cnt' = [cnt EXCEPT ![p] = 0]
          /\ UNCHANGED <<head, tail, mem, value, t, h, idx, next, new_node, ld, history>>

\* Lines 272-278: value = entries[idx].value.exchange(marked_value(nullptr, 1));
\* a value other than nullptr is returned, otherwise backoff() and the next round.
PopExchange(p) ==
  /\ pc[p] = "c272"
  /\ node' = [node EXCEPT ![h[p]].entries[idx[p]] = Tombstone]
  /\ rel' = [rel EXCEPT !.entries[h[p]][idx[p]] = Release(p, Order12, @)]
  /\ IF node[h[p]].entries[idx[p]] # Null
     THEN /\ popped' = Append(popped, Get(node[h[p]].entries[idx[p]]))
          /\ Return(p, "true", Get(node[h[p]].entries[idx[p]]),
                    Acquire(p, Order12, rel.entries[h[p]][idx[p]]))
          /\ Settled(p, Get(node[h[p]].entries[idx[p]]))
          /\ UNCHANGED <<head, tail, mem, conf, crashed, pushes, prior, pops, pushed>>
     ELSE /\ Goto(p, "c241")
          /\ view' = [view EXCEPT ![p] = Acquire(p, Order12, rel.entries[h[p]][idx[p]])]
          /\ cnt' = [cnt EXCEPT ![p] = 0]
          /\ UNCHANGED <<head, tail, mem, value, t, h, idx, next, new_node, ld, history>>

TryPop(p) ==
  \/ PopAcquireHead(p) \/ PopLoadFirst(p) \/ PopLoadSecond(p)
  \/ PopCheckNext(p) \/ PopFetchAdd(p) \/ PopLoadNext(p)
  \/ PopSwingHead(p) \/ PopReclaim(p) \/ PopSpin(p) \/ PopExchange(p)

\* ------------------------------------------------------ reclamation scheme
\* A guard_ptr protects the node it holds.
Guarded(n) == \E q \in Threads : t[q] = n \/ h[q] = n

\* The reclamation scheme destroys a node handed to it once no guard holds it.
Destroy(n) ==
  /\ mem[n] = "retired"
  /\ ~Guarded(n)
  /\ mem' = [mem EXCEPT ![n] = "destroyed"]
  /\ node' = [node EXCEPT ![n] = NoNodeContent]
  /\ rel' = [rel EXCEPT !.next[n] = {}, !.entries[n] = [i \in Slots |-> {}]]
  /\ ret' = NoRet
  /\ UNCHANGED <<head, tail, pc, locals, view, history>>

\* --------------------------------------------------------- specifications
\* A step of p inside a call.
Work(p) == Push(p) \/ TryPop(p)

Next ==
  \/ \E p \in Threads : PushCall(p) \/ PopCall(p) \/ Work(p)
  \/ \E n \in NodeIds : Destroy(n)

Spec == Init /\ [][Next]_vars

\* The same calls, with owed kept.
OwedInit == InitQueue /\ conf = [Harness EXCEPT !.owed = TRUE]
OwedSpec == OwedInit /\ [][Next]_vars

\* The same calls, and push(nullptr).
NullInit == InitQueue /\ conf = [Harness EXCEPT !.null = TRUE]
NullSpec == NullInit /\ [][Next]_vars

\* The same calls, with prior kept.
FifoInit == InitQueue /\ conf = [Harness EXCEPT !.fifo = TRUE]
FifoSpec == FifoInit /\ [][Next]_vars

\* The same calls, with view and rel kept.
\* Enough push calls for a chain of three nodes: two values fill the first
\* node, the third and fourth go to the second node, the fifth links a third.
ChainInit ==
  /\ InitQueue
  /\ conf = [Harness EXCEPT !.push = ChainPush, !.pop = ChainPop]

ChainSpec == ChainInit /\ [][Next]_vars

OrderInit == InitQueue /\ conf = [Harness EXCEPT !.views = TRUE]
OrderSpec == OrderInit /\ [][Next]_vars

\* Thread 1 pushes, thread 2 pops.  A single producer finds no node linked by
\* another one: lines 213 to 221 are never reached (C3 says so), and SpscNext
\* leaves their steps out.
SpscInit ==
  /\ InitQueue
  /\ conf = [Harness EXCEPT !.producers = {1}, !.consumers = {2},
                            !.push = SpscPush, !.pop = SpscPop]

SpscNext ==
  \/ \E p \in Threads :
       \/ PushCall(p) \/ PopCall(p)
       \/ PushAcquireTail(p) \/ PushFetchAdd(p) \/ PushCheckTail(p)
       \/ PushLoadNext(p) \/ PushNewNode(p) \/ PushLinkNode(p)
       \/ PushSwingTail(p) \/ PushPublish(p)
       \/ TryPop(p)
  \/ \E n \in NodeIds : Destroy(n)

SpscSpec == SpscInit /\ [][SpscNext]_vars

\* The threads inside a call keep taking steps: as long as a step of a call is
\* possible, one is taken.  Which thread takes it is left open.
FairSpec == Spec /\ WF_vars(\E p \in Threads : Work(p))

\* A thread inside a call stops for good (it is stalled for ever, or it has
\* crashed): it keeps its guards and locals and takes no further step.
Crash(p) ==
  /\ pc[p] \notin {"idle", "stopped"}
  /\ crashed' = crashed \cup {<<p, pc[p]>>}
  /\ Goto(p, "stopped")
  /\ UNCHANGED <<shared, locals, order, conf, pushes, prior, pops, pushed, popped, owed,
                 solo, snap>>

CrashNext ==
  \/ Next
  \/ \E p \in Threads : Crash(p)

\* Threads may stop anywhere inside a call; the others keep taking steps.
CrashSpec == Init /\ [][CrashNext]_vars /\ WF_vars(\E p \in Threads : Work(p))

\* ------------------------------------------------------------------ claims
PoppedSet == {popped[i] : i \in 1..Len(popped)}

\* A call of p returned in the last step with outcome r.
Returned(p, r) == ret.thread = p /\ ret.outcome = r

\* C1: no duplication and no invention.  Every value a successful try_pop
\* returned is the argument of a push invoked before (the k-th push is passed
\* k), no value is returned by two successful try_pops, and a try_pop that
\* returns true returns a value, the one recorded last.
C1_NoDuplicationNoInvention ==
  /\ \A i \in 1..Len(popped) : popped[i] \in 1..pushes
  /\ \A i, j \in 1..Len(popped) : i # j => popped[i] # popped[j]
  /\ \A p \in Threads :
       Returned(p, "true") => Len(popped) > 0 /\ ret.result = popped[Len(popped)]

\* Two try_pops have succeeded, one with a value whose push has not returned yet.
C1_Witness ==
  /\ Len(popped) = 2
  /\ \E i \in 1..2 : popped[i] \notin pushed
  /\ \E p \in Threads : Returned(p, "true")

\* C2: no loss.  When a try_pop invoked with no call running, and running
\* alone, returns false, the values the successful try_pops returned are, as a
\* multiset, the values whose push returned.
C2_NoLoss ==
  \A p \in Threads :
    (Returned(p, "false") /\ ret.alone) =>
      /\ PoppedSet = pushed
      /\ Len(popped) = Cardinality(pushed)

\* A drain ends with false after both values were pushed and popped, the
\* second one from the second node.
C2_Witness ==
  /\ \E p \in Threads : Returned(p, "false") /\ ret.alone
  /\ Len(popped) = MaxPush
  /\ pushed = 1..MaxPush
  /\ head # 1

\* The values of S in ascending order: the order in which the one producer
\* pushed them.
RECURSIVE Ascending(_)
Ascending(S) ==
  IF S = {} THEN <<>>
  ELSE LET m == CHOOSE x \in S : \A y \in S : x <= y
       IN  <<m>> \o Ascending(S \ {m})

\* The values whose push is in progress.
Pushing == {value[p] : p \in {q \in Threads : value[q] # Null}}

\* C3: single-producer/single-consumer ordering.  The values the successful
\* try_pops returned, in the order of return, are a prefix of the values
\* pushed, in the order pushed: of those whose push returned, followed by the
\* one whose push is in progress if it was popped already.  (The producer is
\* never at a line that only a second producer leads to.)
C3_SpscOrder ==
  /\ PoppedSet \subseteq pushed \cup Pushing
  /\ LET seq == Ascending(pushed \cup PoppedSet)
     IN  popped = SubSeq(seq, 1, Len(popped))
  /\ \A p \in Threads : pc[p] \notin {"p213", "p216", "p219"}

\* Three values were popped in order over two node boundaries, the third one
\* before its push returned.
C3_Witness ==
  /\ popped = <<1, 2, 3>>
  /\ 3 \notin pushed
  /\ head = 3
  /\ Returned(2, "true")

\* The value v is in a slot that a try_pop in progress has claimed: that
\* try_pop returns v.
Claimed(v) ==
  \E q \in Threads :
    /\ pc[q] \in {"c267", "c272"}
    /\ node[h[q]].entries[idx[q]] = v

\* C4: try_pop returns false only if the queue was observed empty.  When a
\* try_pop returns false, every value whose push had returned when it was
\* invoked was returned by a try_pop since, or is in the slot a try_pop in
\* progress has claimed.  A try_pop that ran with no other call running
\* returns true exactly when more pushes had returned than try_pops succeeded.
C4_FalseOnlyIfEmpty ==
  \A p \in Threads :
    /\ Returned(p, "false") => \A v \in ret.owed : Claimed(v)
    /\ (Returned(p, "false") /\ ret.alone) => Cardinality(pushed) <= Len(popped)
    /\ (Returned(p, "true") /\ ret.alone) => Cardinality(pushed) > Len(popped) - 1

\* A try_pop returns false although a push had returned before it was invoked:
\* another try_pop has claimed the value.
C4_Witness ==
  \E p \in Threads : Returned(p, "false") /\ ret.owed # {}

\* The lines of push after its null check.
PushLines == {"p188", "p190", "p194", "p197", "p200", "p203", "p209", "p213",
              "p216", "p219", "p226"}

\* The step is a push(nullptr) that throws invalid_argument.
ThrowsInvalidArgument == \E p \in Threads : ret'.thread = p /\ ret'.outcome = "invalid_argument"

\* C5: push(nullptr) throws invalid_argument before any atomic step.  No push
\* is past its null check with a null argument, and the step that throws
\* changes neither head, tail, a node (cursors, slots, next) or the allocation
\* of one, nor what any thread does next, nor the values pushed and popped: the
\* calls that follow run as if the call had not been made.
C5_NullPushThrows ==
  /\ [](\A p \in Threads : pc[p] \in PushLines => value[p] # Null)
  /\ [][ThrowsInvalidArgument =>
         UNCHANGED <<shared, pc, locals, order, pushes, prior, pops, pushed, popped, owed>>]_vars

\* push(nullptr) has thrown while another push has linked a node and not yet
\* swung tail, and a value was popped.
C5_Witness ==
  /\ \E p \in Threads : Returned(p, "invalid_argument")
  /\ \E q \in Threads : pc[q] = "p209"
  /\ Len(popped) >= 1

\* The nodes that were part of the queue in the shared state s.
Linked(s) == {n \in NodeIds : s.mem[n] = "linked"}

\* Since the shared state s no memory was allocated, freed or handed to the
\* reclamation scheme; the scheme may have destroyed nodes it held.
SameAllocations(s) ==
  \A n \in NodeIds :
    \/ mem[n] = s.mem[n]
    \/ s.mem[n] = "retired" /\ mem[n] = "destroyed"

\* head, tail and the pop cursor, slots and next link of every node are as in s.
SameButCursors(s) ==
  /\ head = s.head
  /\ tail = s.tail
  /\ \A n \in Linked(s) :
       /\ node[n].entries = s.node[n].entries
       /\ node[n].next = s.node[n].next

\* C6 as stated: when new node(value) throws in a push that ran with no other
\* call running, head, tail and every node's push cursor, pop cursor, slots
\* and next link are as they were when the push was invoked.
C6_Unchanged ==
  \A p \in Threads :
    (Returned(p, "bad_alloc") /\ ret.alone) =>
      /\ SameButCursors(ret.snap)
      /\ SameAllocations(ret.snap)
      /\ \A n \in Linked(ret.snap) :
           /\ node[n].pop_idx = ret.snap.node[n].pop_idx
           /\ node[n].push_idx = ret.snap.node[n].push_idx

\* The step is a push that throws bad_alloc.
ThrowsBadAlloc == \E p \in Threads : ret'.thread = p /\ ret'.outcome = "bad_alloc"

\* C6, amended: the step that throws changes nothing of the queue, and when
\* the push ran with no other call running, no node was allocated or linked
\* and head, tail and every node's pop cursor, slots and next link are as
\* they were when the push was invoked; the push cursor of the tail node, and
\* only that one, was advanced: it is beyond the node's capacity.
C6_UnchangedButPushCursor ==
  /\ [][ThrowsBadAlloc => UNCHANGED shared]_vars
  /\ [](\A p \in Threads :
         (Returned(p, "bad_alloc") /\ ret.alone) =>
           /\ SameButCursors(ret.snap)
           /\ SameAllocations(ret.snap)
           /\ \A n \in Linked(ret.snap) :
                /\ node[n].pop_idx = ret.snap.node[n].pop_idx
                /\ n # tail => node[n].push_idx = ret.snap.node[n].push_idx
           /\ node[tail].push_idx > ret.snap.node[tail].push_idx
           /\ node[tail].push_idx > entries_per_node)

\* A push running alone has thrown bad_alloc after it advanced the push
\* cursor twice: over a slot a try_pop had marked, and beyond the capacity.
C6_Witness ==
  \E p \in Threads :
    /\ Returned(p, "bad_alloc")
    /\ ret.alone
    /\ node[tail].push_idx = ret.snap.node[tail].push_idx + 2

\* A try_pop returned that was invoked with no call running and every value
\* whose push had returned popped, and that ran alone.
PoppedEmpty(p) ==
  /\ ret.thread = p
  /\ ret.outcome \in {"true", "false"}
  /\ ret.alone
  /\ LET before == Len(popped) - (IF ret.outcome = "true" THEN 1 ELSE 0)
     IN  pushed \subseteq {popped[i] : i \in 1..before}

\* C7 as stated: a try_pop on the empty queue returns false and leaves head,
\* tail and every node's push cursor, pop cursor, slots and next link
\* unchanged, and hands no node to the reclamation scheme.
C7_NoSideEffect ==
  \A p \in Threads :
    PoppedEmpty(p) =>
      /\ ret.outcome = "false"
      /\ SameButCursors(ret.snap)
      /\ SameAllocations(ret.snap)
      /\ \A n \in Linked(ret.snap) :
           /\ node[n].push_idx = ret.snap.node[n].push_idx
           /\ node[n].pop_idx = ret.snap.node[n].pop_idx

\* C7, amended: a try_pop on the empty queue returns false and leaves head,
\* tail and every node's push cursor, slots and next link unchanged, and hands
\* no node to the reclamation scheme; it leaves the pop cursors unchanged too,
\* but for the one of the head node where the push cursor was above it (a push
\* that found the node full has failed to allocate): that one is advanced by 1.
C7_NoSideEffectButPopCursor ==
  \A p \in Threads :
    PoppedEmpty(p) =>
      /\ ret.outcome = "false"
      /\ SameButCursors(ret.snap)
      /\ SameAllocations(ret.snap)
      /\ \A n \in Linked(ret.snap) :
           /\ node[n].push_idx = ret.snap.node[n].push_idx
           /\ node[n].pop_idx =
                IF n = head /\ ret.snap.node[n].pop_idx < ret.snap.node[n].push_idx
                THEN ret.snap.node[n].pop_idx + 1
                ELSE ret.snap.node[n].pop_idx

\* A try_pop on the empty queue, after a value was pushed and popped, has
\* advanced the pop cursor of the head node.
C7_Witness ==
  \E p \in Threads :
    /\ PoppedEmpty(p)
    /\ Len(popped) >= 1
    /\ node[head].pop_idx = ret.snap.node[head].pop_idx + 1

\* C8: lock-free progress.  With finitely many calls, and steps taken as long
\* as a thread is inside a call, every call of push and of try_pop returns: no
\* execution keeps taking steps inside the calls for ever.
C8_EveryCallReturns ==
  \A p \in Threads : (pc[p] # "idle") ~> (pc[p] = "idle")

\* A push returns after it appended a node: every slot of the first node was
\* marked by a try_pop chasing the pushes, and no value was popped.
C8_Witness ==
  /\ \E p \in Threads : Returned(p, "pushed")
  /\ \A i \in Slots : node[1].entries[i] = Tombstone
  /\ node[1].next # Null
  /\ popped = <<>>

\* C9: tolerance of a stalled or crashed thread.  Wherever inside push or
\* try_pop threads have stopped for good, every call of a thread that has not
\* stopped returns.
C9_OthersReturn ==
  \A p \in Threads :
    (pc[p] \notin {"idle", "stopped"}) ~> (pc[p] \in {"idle", "stopped"})

\* A thread has stopped after it linked a new node and before it advanced
\* tail; the push of another thread advanced tail for it and returned.
C9_Witness ==
  \E q \in Threads :
    /\ <<q, "p209">> \in crashed
    /\ tail = new_node[q]
    /\ \E p \in Threads \ {q} : Returned(p, "pushed")

\* C10: publication ordering.  A try_pop that returns a value has observed
\* the writes the producer made before it pushed the value, and a thread
\* that holds a node through head or tail (which the next links feed) has
\* observed the writes of the node's constructor.
C10_Publication ==
  \A p \in Threads :
    /\ Returned(p, "true") => Data(ret.result) \in ret.view
    /\ t[p] # Null => Made(t[p]) \in view[p]
    /\ h[p] # Null => Made(h[p]) \in view[p]

\* The first value a try_pop returns is one a push published with the next
\* link of the first node, in the first slot of the node it made.
C10_Witness ==
  \E p \in Threads :
    /\ Returned(p, "true")
    /\ Len(popped) = 1
    /\ node[1].next # Null
    /\ node[node[1].next].entries[0] = Tombstone
    /\ Made(node[1].next) \in ret.view

\* The nodes that hold a node: allocated, and neither deleted nor destroyed.
Alive == {n \in NodeIds : mem[n] \in {"private", "linked", "retired"}}

\* The nodes that were linked into the chain.
Chained == {n \in NodeIds : mem[n] \in {"linked", "retired"}}

\* C11: single winner on append.  The next link of a node changes once, from
\* nullptr to a node, and not again while the node exists; the node of a
\* producer that lost the CAS of line 203 (it is private to the producer,
\* then deleted) is not referenced by head, tail, a next link or the guard of
\* a try_pop; and the value of every push that returned, the loser's too, is
\* in a slot of the chain or was popped.
C11_SingleWinner ==
  /\ [][\A n \in NodeIds :
          (node[n].next # Null /\ mem'[n] # "destroyed") =>
            node'[n].next = node[n].next]_vars
  /\ [](\A n \in NodeIds :
          mem[n] \in {"private", "deleted"} =>
            /\ head # n
            /\ tail # n
            /\ \A m \in NodeIds : node[m].next # n
            /\ \A p \in Threads : h[p] # n /\ t[p] # n)
  /\ [](\A v \in pushed :
          \/ v \in PoppedSet
          \/ \E n \in Chained : \E i \in Slots : node[n].entries[i] = v)

\* Two producers found the first node full; one linked its node, the other
\* one deleted its node and has returned too, its value pushed.
C11_Witness ==
  /\ \E n \in NodeIds : mem[n] = "deleted"
  /\ pushed = 1..MaxPush
  /\ \E p \in Threads : Returned(p, "pushed")

\* The k first pushes have returned, one after the other, on the queue as
\* constructed: no push failed, no try_pop was called, no call is running.
PushedOnly(k) ==
  /\ pops = 0
  /\ pushes = k
  /\ pushed = 1..k
  /\ Quiescent

\* C12: segment boundary.  On the queue as constructed, pushes of one thread
\* fill the slots of the first node in push order without allocating, and
\* the push after the last slot allocates one node: its value is in slot 0
\* of that node, whose push cursor is 1 and pop cursor 0, the node is the
\* successor of the first one and tail references it when the push returns.
C12_SegmentBoundary ==
  /\ \A k \in 0..entries_per_node :
       PushedOnly(k) =>
         /\ \A n \in NodeIds \ {1} : mem[n] = "unused"
         /\ \A i \in Slots : node[1].entries[i] = (IF i < k THEN i + 1 ELSE Null)
         /\ node[1].next = Null
         /\ head = 1 /\ tail = 1
  /\ PushedOnly(entries_per_node + 1) =>
       /\ Cardinality({n \in NodeIds : mem[n] # "unused"}) = 2
       /\ \A i \in Slots : node[1].entries[i] = i + 1
       /\ node[1].next \in NodeIds \ {1}
       /\ mem[node[1].next] = "linked"
       /\ node[node[1].next] =
            [pop_idx |-> 0,
             entries |-> [i \in Slots |-> IF i = 0 THEN entries_per_node + 1 ELSE Null],
             push_idx |-> 1,
             next |-> Null]
       /\ head = 1
       /\ tail = node[1].next

\* The push after the last slot of the first node has just returned.
C12_Witness ==
  /\ PushedOnly(entries_per_node + 1)
  /\ Returned(1, "pushed")

\* p holds the index idx[p] of a slot of node n: as a push before its CAS, or
\* as a try_pop before its exchange.
PushHolds(p, n) == pc[p] = "p226" /\ t[p] = n
PopHolds(p, n) == pc[p] \in {"c267", "c272"} /\ h[p] = n

\* C13: slot state is monotone.  A slot of a node of the chain that holds the
\* mark keeps it, and one that holds a value keeps the value or gets the
\* mark.  No two pushes hold the same index of a node and no two try_pops do;
\* the indices held are below the cursor that handed them out, so that
\* fetch_add hands none of them out again.
C13_SlotMonotone ==
  /\ [][\A n \in Chained : \A i \in Slots :
          mem'[n] # "destroyed" =>
            /\ node[n].entries[i] = Tombstone => node'[n].entries[i] = Tombstone
            /\ node[n].entries[i] # Null =>
                 node'[n].entries[i] \in {node[n].entries[i], Tombstone}]_vars
  /\ [](\A n \in NodeIds : \A p \in Threads :
          /\ PushHolds(p, n) =>
               /\ idx[p] < node[n].push_idx
               /\ \A q \in Threads \ {p} : PushHolds(q, n) => idx[q] # idx[p]
          /\ PopHolds(p, n) =>
               /\ idx[p] < node[n].pop_idx
               /\ \A q \in Threads \ {p} : PopHolds(q, n) => idx[q] # idx[p])

\* A try_pop has just marked a slot that held a value, the first value
\* popped; another slot of the first node was marked while it was empty.
C13_Witness ==
  /\ \E p \in Threads : Returned(p, "true")
  /\ Len(popped) = 1
  /\ mem[1] = "linked"
  /\ \A i \in Slots : node[1].entries[i] = Tombstone

\* Slot i of node n holds a value that was pushed and not popped yet.
Unconsumed(n, i) == node[n].entries[i] \notin {Null, Tombstone}

\* C14: no stranded value.  Every value in a slot of the chain is at an index
\* that the pop cursor of its node has not reached, or that a try_pop holds
\* and has not exchanged yet.  A push whose slot holds the mark does not
\* write it: its CAS fails and it starts over with the next index.
C14_NoStrandedValue ==
  /\ [](\A n \in Chained : \A i \in Slots :
          Unconsumed(n, i) =>
            \/ i >= node[n].pop_idx
            \/ \E p \in Threads : PopHolds(p, n) /\ idx[p] = i)
  /\ [][\A p \in Threads :
          (/\ pc[p] = "p226"
           /\ node[t[p]].entries[idx[p]] = Tombstone
           /\ pc'[p] # "p226") =>
            /\ pc'[p] = "p188"
            /\ node'[t[p]].entries = node[t[p]].entries]_vars

\* A push is about to try a slot that a try_pop has marked, while a value
\* sits at an index a try_pop holds.
C14_Witness ==
  /\ \E p \in Threads : pc[p] = "p226" /\ node[t[p]].entries[idx[p]] = Tombstone
  /\ \E n \in Chained : \E i \in Slots : Unconsumed(n, i) /\ i < node[n].pop_idx

\* C15: reclamation safety.  With a reclamation scheme that destroys a node
\* only after it was handed over and while no guard holds it: the node a
\* thread accesses through its guard t or h is a node of the chain, not a
\* destroyed one (nor one deleted or never allocated), the node a push links
\* or deletes is its own, head references a node that was not handed over,
\* and tail references a node that is not destroyed, also while head has been
\* swung past it.
C15_ReclamationSafety ==
  /\ \A p \in Threads :
       /\ t[p] # Null => t[p] \in Chained
       /\ h[p] # Null => h[p] \in Chained
       /\ pc[p] \in {"p203", "p213"} => mem[new_node[p]] = "private"
  /\ mem[head] = "linked"
  /\ tail \in Chained

\* head was swung past the node tail references, which was handed to the
\* reclamation scheme and is held by no guard of a try_pop.
C15_Witness ==
  /\ mem[tail] = "retired"
  /\ \A p \in Threads : h[p] # tail
  /\ head # tail

\* C16: retire discipline.  A node is handed to the reclamation scheme once:
\* by the one thread whose CAS swung head from it to its successor, when its
\* pop cursor is beyond its capacity and its next link is set.  A node is
\* deleted by push only while private to the push that allocated it, which
\* failed to link it.
C16_RetireDiscipline ==
  /\ [](\A p \in Threads :
          pc[p] = "c259" =>
            /\ mem[h[p]] = "linked"
            /\ head # h[p]
            /\ node[h[p]].next # Null
            /\ node[h[p]].pop_idx >= entries_per_node
            /\ \A q \in Threads \ {p} : ~(pc[q] = "c259" /\ h[q] = h[p]))
  /\ [][\A n \in NodeIds :
          /\ (mem'[n] = "retired" /\ mem[n] # "retired") =>
               \E p \in Threads : pc[p] = "c259" /\ h[p] = n /\ pc'[p] = "c241"
          /\ (mem'[n] = "deleted" /\ mem[n] # "deleted") =>
               /\ mem[n] = "private"
               /\ \E p \in Threads : pc[p] = "p213" /\ new_node[p] = n
          /\ mem[n] = "retired" => mem'[n] \in {"retired", "destroyed"}
          /\ (\E p \in Threads : pc'[p] = "c259" /\ pc[p] # "c259" /\ h[p] = n) =>
               head = n /\ head' = node[n].next]_vars

\* The first node was handed to the reclamation scheme, and a push has
\* deleted the node it failed to link.
C16_Witness ==
  /\ mem[1] = "retired"
  /\ \E n \in NodeIds : mem[n] = "deleted"

\* C17: multi-thread FIFO order.  When push(a) had returned before push(b)
\* was invoked and a try_pop has returned b, then a was returned by a try_pop
\* or is in the slot a try_pop in progress, invoked before, has claimed and
\* will return.  With no call running, b popped implies a popped.
C17_Fifo ==
  \A ab \in prior :
    ab[2] \in PoppedSet =>
      \/ ab[1] \in PoppedSet
      \/ Claimed(ab[1])

\* push(1) had returned before push(2) was invoked, and a try_pop returns 2
\* while the try_pop that holds the slot of 1 has not returned yet.
C17_Witness ==
  /\ <<1, 2>> \in prior
  /\ \E p \in Threads : Returned(p, "true") /\ ret.result = 2
  /\ 1 \notin PoppedSet

\* A push is in progress: running, or stopped for good inside push.
PushInProgress ==
  \/ \E p \in Threads : pc[p] \in PushLines
  \/ \E c \in crashed : c[2] \in PushLines

\* C18: tail is eventually advanced.  While no push is in progress, tail
\* references the last node of the chain.  A push that found the node full
\* and a successor linked (line 216) moves tail to the successor if tail
\* still references the node, and starts over; and a push returns also when
\* it finds tail lagging, even with the thread that linked the successor
\* stopped for good.
C18_TailAdvanced ==
  /\ [](~PushInProgress => node[tail].next = Null)
  /\ [][\A p \in Threads :
          (pc[p] = "p219" /\ pc'[p] # "p219" /\ pc'[p] # "stopped") =>
            /\ pc'[p] = "p188"
            /\ next[p] = node[t[p]].next
            /\ tail = t[p] => tail' = next[p]
            /\ tail # t[p] => tail' = tail]_vars
  /\ \A p \in Threads :
       (pc[p] \in PushLines /\ node[tail].next # Null) ~> (pc[p] \in {"idle", "stopped"})

\* The thread that linked the second node has stopped before it advanced
\* tail; the push of another thread has just moved tail to that node.
C18_Witness ==
  \E q \in Threads : \E p \in Threads \ {q} :
    /\ <<q, "p209">> \in crashed
    /\ pc[p] = "p188"
    /\ next[p] = new_node[q]
    /\ tail = next[p]
    /\ t[p] = t[q]

\* C19: tail lags by at most one link.  The node tail references is the last
\* node of the chain or the one before it; and the next link of a node of the
\* chain is only ever set while tail references that node.
C19_TailLag ==
  /\ [](node[tail].next = Null \/ node[node[tail].next].next = Null)
  /\ [][\A n \in Chained :
          (n \in Chained' /\ node'[n].next # node[n].next) =>
            /\ n = tail
            /\ node[n].next = Null]_vars

\* A chain of three nodes with tail on the second one: the third node has
\* been linked and tail has not been advanced yet.
C19_Witness ==
  \E n \in NodeIds :
    /\ n \in Chained
    /\ node[n].next # Null
    /\ node[node[n].next].next # Null
    /\ tail = node[n].next
    /\ \E p \in Threads : pc[p] = "p209" /\ t[p] = tail

\* The nodes that hold their content: allocated and not freed.
Allocated == {n \in NodeIds : mem[n] \in {"private", "linked", "retired"}}

\* C20: head and tail only move forward.  head and tail are never null; each
\* of them changes only from a node to the node its next link references;
\* and the push_idx and the pop_idx of a node never decrease.
C20_Forward ==
  /\ [](head # Null /\ tail # Null)
  /\ [][/\ head' # head => (head' = node[head].next /\ head' # Null)
        /\ tail' # tail => (tail' = node[tail].next /\ tail' # Null)
        /\ \A n \in Allocated :
             n \in Allocated' =>
               /\ node'[n].push_idx >= node[n].push_idx
               /\ node'[n].pop_idx >= node[n].pop_idx]_vars

\* tail has moved twice and head once: the chain has three nodes, tail is on
\* the last one and head on the second one, after a push returned.
C20_Witness ==
  /\ head # 1
  /\ head = node[1].next
  /\ node[head].next # Null
  /\ tail = node[head].next
  /\ node[1].pop_idx > entries_per_node
  /\ \E p \in Threads : Returned(p, "pushed")

====
